---- MODULE Spec2Model ----
(***************************************************************************)
(* A model of HiGHS' lp_data/HighsLp.cpp: the HighsLp aggregate with its   *)
(* scale (applyScale / unapplyScale / clearScale / clearScaling), its      *)
(* modification journal HighsLpMods (unapplyMods / clear / isClear), the   *)
(* name hash HighsNameHash (form / hasDuplicate / clear), the synthetic    *)
(* name generation addColNames / addRowNames, exactResize, clear and the   *)
(* equality operators.                                                     *)
(*                                                                         *)
(* Conventions.                                                            *)
(*  - A HighsLp object is a record whose fields carry the C++ member       *)
(*    names.  std::vector<T> is a sequence; C++ index i is position i+1.   *)
(*    Indices stored in data (journal column indices, hash values) keep    *)
(*    their C++ 0-based value.                                             *)
(*  - double values are exact rationals <<numerator, denominator>> in      *)
(*    lowest terms with a positive denominator, so that multiply/divide    *)
(*    pairs are computed, not assumed to cancel.                           *)
(*  - A failed assert() is fatal: the handler stops where the assertion    *)
(*    is, the variable failed becomes TRUE and nothing runs afterwards.    *)
(*  - op, op2, arg, pre, trip, orig and installs are history variables:    *)
(*    the last operation and the one before it, the last argument, the     *)
(*    object before the last operation, snapshots for round trips, and a   *)
(*    count of the caller's installs (scales, or changes of dimension).    *)
(***************************************************************************)
EXTENDS Integers, Sequences, FiniteSets, TLC

VARIABLES lp, lp2, op, op2, arg, pre, trip, orig, result, failed, installs

vars == <<lp, lp2, op, op2, arg, pre, trip, orig, result, failed, installs>>

(***************************************************************************)
(* Bounds of the model.                                                    *)
(***************************************************************************)
MaxCol == 2
MaxRow == 1
MaxVal == 1
MaxFactor == 2
MaxInstall == 2
MaxDiff == 2
MaxBound == 2
MaxEdits == 3
MaxLog == 1
MaxLen == 4
MaxNew == 2
MaxBlank == 2
MaxNames == 6
MaxDim == 3

Null == [null |-> TRUE]

(***************************************************************************)
(* Exact arithmetic on doubles.                                            *)
(***************************************************************************)
Abs(n) == IF n < 0 THEN -n ELSE n

RECURSIVE GCD(_, _)
GCD(a, b) == IF b = 0 THEN a ELSE GCD(b, a % b)

\* n/d in lowest terms with a positive denominator (d # 0)
Rat(n, d) ==
  LET g == GCD(Abs(n), Abs(d))
      s == IF d < 0 THEN -1 ELSE 1
  IN  <<(s * n) \div g, (s * d) \div g>>

\* x *= y
RMul(x, y) == Rat(x[1] * y[1], x[2] * y[2])

\* x /= y   (y # 0)
RDiv(x, y) == Rat(x[1] * y[2], x[2] * y[1])


(***************************************************************************)
(* The objects after construction / clear().                               *)
(***************************************************************************)
\* HighsLp::clearScale: the scale descriptor it leaves
ClearedScale ==
  [strategy |-> "kSimplexScaleStrategyOff", has_scaling |-> FALSE,
   num_col |-> 0, num_row |-> 0, cost |-> Rat(0, 1), col |-> <<>>, row |-> <<>>]

\* HighsLpMods::clear: all nine journal vectors empty
ClearedMods ==
  [save_non_semi_variable_index |-> <<>>,
   save_inconsistent_semi_variable_index |-> <<>>,
   save_inconsistent_semi_variable_lower_bound_value |-> <<>>,
   save_inconsistent_semi_variable_upper_bound_value |-> <<>>,
   save_inconsistent_semi_variable_type |-> <<>>,
   save_relaxed_semi_variable_lower_bound_index |-> <<>>,
   save_relaxed_semi_variable_lower_bound_value |-> <<>>,
   save_tightened_semi_variable_upper_bound_index |-> <<>>,
   save_tightened_semi_variable_upper_bound_value |-> <<>>]

\* HighsNameHash::clear: name2index.clear()
EmptyHash == <<>>

\* clear() without the reset of the two name counters (lines 146-147)
ClearKeepsCounters(l) ==
  [num_col_ |-> 0, num_row_ |-> 0,
   col_cost_ |-> <<>>, col_lower_ |-> <<>>, col_upper_ |-> <<>>,
   row_lower_ |-> <<>>, row_upper_ |-> <<>>,
   a_matrix_ |-> <<>>,
   sense_ |-> "kMinimize", offset_ |-> <<0, 1>>,
   model_name_ |-> "", objective_name_ |-> "",
   new_col_name_ix_ |-> IF l = Null THEN 0 ELSE l.new_col_name_ix_,
   new_row_name_ix_ |-> IF l = Null THEN 0 ELSE l.new_row_name_ix_,
   col_names_ |-> <<>>, row_names_ |-> <<>>,
   integrality_ |-> <<>>,
   col_hash_ |-> EmptyHash, row_hash_ |-> EmptyHash,
   scale_ |-> ClearedScale,
   is_scaled_ |-> FALSE, is_moved_ |-> FALSE, cost_row_location_ |-> -1,
   mods_ |-> ClearedMods]

\* HighsLp::clear applied to the object l
Clear(l) ==
  [num_col_ |-> 0, num_row_ |-> 0,
   col_cost_ |-> <<>>, col_lower_ |-> <<>>, col_upper_ |-> <<>>,
   row_lower_ |-> <<>>, row_upper_ |-> <<>>,
   a_matrix_ |-> <<>>,
   sense_ |-> "kMinimize", offset_ |-> Rat(0, 1),
   model_name_ |-> "", objective_name_ |-> "",
   new_col_name_ix_ |-> 0, new_row_name_ix_ |-> 0,
   col_names_ |-> <<>>, row_names_ |-> <<>>,
   integrality_ |-> <<>>,
   col_hash_ |-> EmptyHash, row_hash_ |-> EmptyHash,
   scale_ |-> ClearedScale,
   is_scaled_ |-> FALSE, is_moved_ |-> FALSE, cost_row_location_ |-> -1,
   mods_ |-> ClearedMods]

\* a freshly constructed HighsLp (the constructor calls clear())
NewLp == Clear(Null)

(***************************************************************************)
(* Scaling.                                                                *)
(***************************************************************************)
\* HighsLp::clearScale
ClearScale(l) == [l EXCEPT !.scale_ = ClearedScale]

\* HighsLp::resetScale
ResetScale(l) == ClearScale(l)

\* the matrix's applyScale: entry (iRow, iCol) is multiplied by
\* 1/colFactor[iCol] and by rowFactor[iRow]
MatrixApplyScale(m, scale) ==
  [iRow \in DOMAIN m |->
     [iCol \in DOMAIN m[iRow] |->
        RMul(RDiv(m[iRow][iCol], scale.col[iCol]), scale.row[iRow])]]

\* the matrix's unapplyScale: the inverse of MatrixApplyScale
MatrixUnapplyScale(m, scale) ==
  [iRow \in DOMAIN m |->
     [iCol \in DOMAIN m[iRow] |->
        RDiv(RMul(m[iRow][iCol], scale.col[iCol]), scale.row[iRow])]]

\* v[i] *= factor[i] for the first n entries of v
MulVector(v, factor, n) ==
  [i \in DOMAIN v |-> IF i <= n THEN RMul(v[i], factor[i]) ELSE v[i]]

\* v[i] /= factor[i] for the first n entries of v
DivVector(v, factor, n) ==
  [i \in DOMAIN v |-> IF i <= n THEN RDiv(v[i], factor[i]) ELSE v[i]]

\* the assertion of applyScale (line 183)
ApplyScaleAssert(l) == l.is_scaled_ => l.scale_.has_scaling

\* applyScale with the "already scaled" return left out
ApplyScaleAgain(l) ==
  IF l.scale_.has_scaling
  THEN [l EXCEPT
          !.col_lower_ = DivVector(@, l.scale_.col, l.num_col_),
          !.col_upper_ = DivVector(@, l.scale_.col, l.num_col_),
          !.col_cost_ = MulVector(@, l.scale_.col, l.num_col_),
          !.row_lower_ = MulVector(@, l.scale_.row, l.num_row_),
          !.row_upper_ = MulVector(@, l.scale_.row, l.num_row_),
          !.a_matrix_ = MatrixApplyScale(@, l.scale_),
          !.is_scaled_ = TRUE]
  ELSE [l EXCEPT !.is_scaled_ = FALSE]

\* HighsLp::applyScale, its assertion holding
ApplyScale(l) ==
  IF l.is_scaled_
  THEN l
  ELSE IF l.scale_.has_scaling
       THEN [l EXCEPT
               !.col_lower_ = DivVector(@, l.scale_.col, l.num_col_),
               !.col_upper_ = DivVector(@, l.scale_.col, l.num_col_),
               !.col_cost_ = MulVector(@, l.scale_.col, l.num_col_),
               !.row_lower_ = MulVector(@, l.scale_.row, l.num_row_),
               !.row_upper_ = MulVector(@, l.scale_.row, l.num_row_),
               !.a_matrix_ = MatrixApplyScale(@, l.scale_),
               !.is_scaled_ = TRUE]
       ELSE [l EXCEPT !.is_scaled_ = FALSE]

\* the assertion of unapplyScale (line 213)
UnapplyScaleAssert(l) == l.is_scaled_ => l.scale_.has_scaling

\* unapplyScale dividing the column bounds where the code multiplies them
UnapplyScaleDivides(l) ==
  IF ~l.is_scaled_
  THEN l
  ELSE [l EXCEPT
          !.col_lower_ = DivVector(@, l.scale_.col, l.num_col_),
          !.col_upper_ = DivVector(@, l.scale_.col, l.num_col_),
          !.col_cost_ = DivVector(@, l.scale_.col, l.num_col_),
          !.row_lower_ = DivVector(@, l.scale_.row, l.num_row_),
          !.row_upper_ = DivVector(@, l.scale_.row, l.num_row_),
          !.a_matrix_ = MatrixUnapplyScale(@, l.scale_),
          !.is_scaled_ = FALSE]

\* HighsLp::unapplyScale, its assertion holding
UnapplyScale(l) ==
  IF ~l.is_scaled_
  THEN l
  ELSE [l EXCEPT
          !.col_lower_ = MulVector(@, l.scale_.col, l.num_col_),
          !.col_upper_ = MulVector(@, l.scale_.col, l.num_col_),
          !.col_cost_ = DivVector(@, l.scale_.col, l.num_col_),
          !.row_lower_ = DivVector(@, l.scale_.row, l.num_row_),
          !.row_upper_ = DivVector(@, l.scale_.row, l.num_row_),
          !.a_matrix_ = MatrixUnapplyScale(@, l.scale_),
          !.is_scaled_ = FALSE]

\* clearScaling without its unapplyScale (line 174)
ClearScalingSkipsUnapply(l) == ClearScale(l)

\* HighsLp::clearScaling, the assertion of its unapplyScale holding
ClearScaling(l) == ClearScale(UnapplyScale(l))

(***************************************************************************)
(* The external stages of the scaling life cycle.                          *)
(***************************************************************************)
\* the models a caller passes in with nc columns and nr rows: the values
\* grow with the index from the seed v, so that zero, positive and negative
\* costs and bounds all occur
ModelsOf(nc, nr) ==
  { [NewLp EXCEPT
       !.num_col_ = nc, !.num_row_ = nr,
       !.col_cost_ = [iCol \in 1..nc |-> Rat(v + iCol - 1, 1)],
       !.col_lower_ = [iCol \in 1..nc |-> Rat(v - iCol, 1)],
       !.col_upper_ = [iCol \in 1..nc |-> Rat(v + iCol, 1)],
       !.row_lower_ = [iRow \in 1..nr |-> Rat(iRow - 1 - v, 1)],
       !.row_upper_ = [iRow \in 1..nr |-> Rat(iRow + v, 1)],
       !.a_matrix_ =
          [iRow \in 1..nr |-> [iCol \in 1..nc |-> Rat(iRow + iCol + v, 1)]]] :
      v \in 0..MaxVal }

\* the k-th factor, 1 <= k <= MaxFactor: 2, 1/2, 3, 1/3, ...
Factor(k) == IF k % 2 = 1 THEN Rat((k + 3) \div 2, 1) ELSE Rat(1, (k + 2) \div 2)

\* the scales the scaling-strategy stage forms for the object l: positive
\* factors, one sequence per starting factor k
FormedScales(l) ==
  { [strategy |-> "kSimplexScaleStrategyChoose", has_scaling |-> TRUE,
     num_col |-> l.num_col_, num_row |-> l.num_row_, cost |-> Rat(1, 1),
     col |-> [iCol \in 1..l.num_col_ |-> Factor(1 + ((k + iCol) % MaxFactor))],
     row |-> [iRow \in 1..l.num_row_ |-> Factor(1 + ((k + iRow + 1) % MaxFactor))]] :
      k \in 1..MaxFactor }

(***************************************************************************)
(* Specification SpecScale: the scaling life cycle of one HighsLp.         *)
(***************************************************************************)
\* history kept by every operation
Log(name, a) ==
  /\ op' = name /\ op2' = op /\ arg' = a /\ pre' = lp

InitCommon ==
  /\ lp2 = Null /\ op = "init" /\ op2 = "init" /\ arg = Null /\ pre = Null
  /\ trip = Null /\ orig = Null /\ result = Null /\ failed = FALSE
  /\ installs = 0

InitScale == lp = NewLp /\ InitCommon

\* a caller passes a model into the freshly cleared object
passModel ==
  /\ ~failed /\ lp = NewLp
  /\ \E nc \in 1..MaxCol, nr \in 1..MaxRow : \E m \in ModelsOf(nc, nr) :
       /\ lp' = m
       /\ Log("passModel", Null)
  /\ trip' = Null
  /\ UNCHANGED <<lp2, orig, result, failed, installs>>

\* the scaling-strategy stage installs a scale with has_scaling = true; it
\* forms a scale for unscaled data only (is_scaled means that the scale the
\* object holds is the one its values reflect)
installScale ==
  /\ ~failed /\ installs < MaxInstall
  /\ ~lp.is_scaled_
  /\ \E s \in FormedScales(lp) :
       /\ lp' = [lp EXCEPT !.scale_ = s]
       /\ Log("installScale", Null)
  /\ installs' = installs + 1
  /\ trip' = Null
  /\ UNCHANGED <<lp2, orig, result, failed>>

\* orig keeps the object as it was before its values were scaled
applyScale ==
  /\ ~failed
  /\ IF ApplyScaleAssert(lp)
     THEN lp' = ApplyScale(lp) /\ failed' = FALSE
     ELSE lp' = lp /\ failed' = TRUE
  /\ Log("applyScale", Null)
  /\ trip' = Null
  /\ orig' = IF ~lp.is_scaled_ /\ lp.scale_.has_scaling THEN lp ELSE orig
  /\ UNCHANGED <<lp2, result, installs>>

unapplyScale ==
  /\ ~failed
  /\ IF UnapplyScaleAssert(lp)
     THEN lp' = UnapplyScale(lp) /\ failed' = FALSE
     ELSE lp' = lp /\ failed' = TRUE
  /\ Log("unapplyScale", Null)
  /\ trip' = IF op = "applyScale" THEN pre ELSE Null
  /\ orig' = Null
  /\ UNCHANGED <<lp2, result, installs>>

clearScale ==
  /\ ~failed
  /\ lp' = ClearScale(lp)
  /\ Log("clearScale", Null)
  /\ trip' = Null
  /\ UNCHANGED <<lp2, orig, result, failed, installs>>

resetScale ==
  /\ ~failed
  /\ lp' = ResetScale(lp)
  /\ Log("resetScale", Null)
  /\ trip' = Null
  /\ UNCHANGED <<lp2, orig, result, failed, installs>>

clearScaling ==
  /\ ~failed
  /\ IF UnapplyScaleAssert(lp)
     THEN lp' = ClearScaling(lp) /\ failed' = FALSE
     ELSE lp' = lp /\ failed' = TRUE
  /\ Log("clearScaling", Null)
  /\ trip' = Null
  /\ UNCHANGED <<lp2, orig, result, installs>>

clear ==
  /\ ~failed
  /\ lp' = Clear(lp)
  /\ Log("clear", Null)
  /\ trip' = Null /\ installs' = 0 /\ orig' = Null
  /\ UNCHANGED <<lp2, result, failed>>

NextScale ==
  \/ passModel \/ installScale \/ applyScale \/ unapplyScale
  \/ clearScale \/ resetScale \/ clearScaling \/ clear

SpecScale == InitScale /\ [][NextScale]_vars

(***************************************************************************)
(* Claims on scaling.                                                      *)
(***************************************************************************)
\* C1: in every state reached from a cleared model by installScale,
\* applyScale, unapplyScale, clearScale, resetScale, clearScaling and clear,
\* is_scaled implies scale.has_scaling, and no assertion on has_scaling fails.
C1_ScaledImpliesHasScaling ==
  /\ lp.is_scaled_ => lp.scale_.has_scaling
  /\ ~failed

\* the values of the model scaling acts on
ScaledValues(l) ==
  <<l.col_cost_, l.col_lower_, l.col_upper_, l.row_lower_, l.row_upper_>>

\* the state after applyScale then unapplyScale, started on an unscaled model
\* with has_scaling = true (trip is the model before the applyScale)
RoundTripDone ==
  /\ op = "unapplyScale" /\ trip # Null
  /\ ~trip.is_scaled_ /\ trip.scale_.has_scaling

\* C6: applyScale followed by unapplyScale, on an unscaled model with
\* has_scaling and positive factors, returns every cost and bound to its
\* starting value, leaves is_scaled false and the scale unchanged.
C6_ScaleRoundTrip ==
  RoundTripDone =>
    /\ ScaledValues(lp) = ScaledValues(trip)
    /\ ~lp.is_scaled_
    /\ lp.scale_ = trip.scale_
    /\ ~failed

\* a round trip in which the scaled costs and bounds differed from the
\* starting ones
C6_Witness ==
  /\ RoundTripDone
  /\ pre.is_scaled_
  /\ pre.col_cost_ # lp.col_cost_
  /\ pre.col_upper_ # lp.col_upper_
  /\ pre.row_upper_ # lp.row_upper_

\* C7: a second applyScale directly after a first one changes nothing of
\* the model (costs, bounds, matrix, scale, is_scaled).
C7_ApplyScaleIdempotent ==
  (op = "applyScale" /\ op2 = "applyScale") => (lp = pre /\ ~failed)

\* a second applyScale on a model the first one really scaled
C7_Witness ==
  /\ op = "applyScale" /\ op2 = "applyScale"
  /\ lp.is_scaled_ /\ lp.num_col_ > 0
  /\ \E i \in 1..lp.num_col_ :
       lp.scale_.col[i] # Rat(1, 1) /\ lp.col_cost_[i] # Rat(0, 1)

(***************************************************************************)
(* Equality.                                                               *)
(***************************************************************************)
\* HighsSparseMatrix::operator==: value equality of the two matrices
MatrixEqual(a, b) == a = b

\* HighsLp::equalButForNames: the running conjunction "equal", statement by
\* statement
EqualButForNames(a, b) ==
  LET e0 == TRUE
      e1 == (a.num_col_ = b.num_col_) /\ e0
      e2 == (a.num_row_ = b.num_row_) /\ e1
      e3 == (a.sense_ = b.sense_) /\ e2
      e4 == (a.offset_ = b.offset_) /\ e3
      e5 == (a.model_name_ = b.model_name_) /\ e4
      e6 == (a.col_cost_ = b.col_cost_) /\ e5
      e7 == (a.col_upper_ = b.col_upper_) /\ e6
      e8 == (a.col_lower_ = b.col_lower_) /\ e7
      e9 == (a.row_upper_ = b.row_upper_) /\ e8
      e10 == (a.row_lower_ = b.row_lower_) /\ e9
      e11 == MatrixEqual(a.a_matrix_, b.a_matrix_)
      e12 == (a.scale_.strategy = b.scale_.strategy) /\ e11
      e13 == (a.scale_.has_scaling = b.scale_.has_scaling) /\ e12
      e14 == (a.scale_.num_col = b.scale_.num_col) /\ e13
      e15 == (a.scale_.num_row = b.scale_.num_row) /\ e14
      e16 == (a.scale_.cost = b.scale_.cost) /\ e15
      e17 == (a.scale_.col = b.scale_.col) /\ e16
      e18 == (a.scale_.row = b.scale_.row) /\ e17
  IN  e18

\* HighsLp::equalNames
EqualNames(a, b) ==
  LET e0 == TRUE
      e1 == (a.objective_name_ = b.objective_name_) /\ e0
      e2 == (a.row_names_ = b.row_names_) /\ e1
      e3 == (a.col_names_ = b.col_names_) /\ e2
  IN  e3

\* HighsLp::operator==
Equal(a, b) ==
  LET e1 == EqualButForNames(a, b)
      e2 == EqualNames(a, b) /\ e1
  IN  e2

\* the members the two comparisons read
ComparedFields ==
  {"num_col_", "num_row_", "sense_", "offset_", "model_name_", "col_cost_",
   "col_upper_", "col_lower_", "row_upper_", "row_lower_", "a_matrix_",
   "scale_.strategy", "scale_.has_scaling", "scale_.num_col",
   "scale_.num_row", "scale_.cost", "scale_.col", "scale_.row",
   "objective_name_", "row_names_", "col_names_"}

\* a double different from x, a vector different from v
OtherValue(x) == Rat(x[1] + x[2], x[2])
OtherVector(v) == Append(v, Rat(1, 1))

\* the object l with member f given another value
Alter(l, f) ==
  CASE f = "num_col_" -> [l EXCEPT !.num_col_ = @ + 1]
    [] f = "num_row_" -> [l EXCEPT !.num_row_ = @ + 1]
    [] f = "sense_" -> [l EXCEPT !.sense_ = "kMaximize"]
    [] f = "offset_" -> [l EXCEPT !.offset_ = OtherValue(@)]
    [] f = "model_name_" -> [l EXCEPT !.model_name_ = "other"]
    [] f = "col_cost_" -> [l EXCEPT !.col_cost_[1] = OtherValue(@)]
    [] f = "col_upper_" -> [l EXCEPT !.col_upper_[1] = OtherValue(@)]
    [] f = "col_lower_" -> [l EXCEPT !.col_lower_[1] = OtherValue(@)]
    [] f = "row_upper_" -> [l EXCEPT !.row_upper_[1] = OtherValue(@)]
    [] f = "row_lower_" -> [l EXCEPT !.row_lower_[1] = OtherValue(@)]
    [] f = "a_matrix_" -> [l EXCEPT !.a_matrix_[1][1] = OtherValue(@)]
    [] f = "scale_.strategy" ->
         [l EXCEPT !.scale_.strategy = "kSimplexScaleStrategyForcedEquilibration"]
    [] f = "scale_.has_scaling" -> [l EXCEPT !.scale_.has_scaling = ~@]
    [] f = "scale_.num_col" -> [l EXCEPT !.scale_.num_col = @ + 1]
    [] f = "scale_.num_row" -> [l EXCEPT !.scale_.num_row = @ + 1]
    [] f = "scale_.cost" -> [l EXCEPT !.scale_.cost = OtherValue(@)]
    [] f = "scale_.col" -> [l EXCEPT !.scale_.col = OtherVector(@)]
    [] f = "scale_.row" -> [l EXCEPT !.scale_.row = OtherVector(@)]
    [] f = "objective_name_" -> [l EXCEPT !.objective_name_ = "other"]
    [] f = "row_names_" -> [l EXCEPT !.row_names_ = Append(@, "r")]
    [] f = "col_names_" -> [l EXCEPT !.col_names_ = Append(@, "c")]

RECURSIVE AlterAll(_, _)
AlterAll(l, fs) ==
  IF fs = {} THEN l
  ELSE LET f == CHOOSE x \in fs : TRUE IN AlterAll(Alter(l, f), fs \ {f})

(***************************************************************************)
(* Specification SpecEqual: two models that differ in at most MaxDiff of   *)
(* the compared members, and the comparisons of them.                      *)
(***************************************************************************)
InitEqual ==
  /\ \E nc \in 1..MaxCol, nr \in 1..MaxRow : \E m \in ModelsOf(nc, nr) :
       \E s \in FormedScales(m) \cup {ClearedScale} :
         \E fs \in SUBSET ComparedFields :
           /\ Cardinality(fs) <= MaxDiff
           /\ lp = [m EXCEPT !.scale_ = s]
           /\ lp2 = AlterAll(lp, fs)
           /\ arg = fs
  /\ op = "init" /\ op2 = "init" /\ pre = Null
  /\ trip = Null /\ orig = Null /\ result = Null /\ failed = FALSE
  /\ installs = 0

equalButForNames ==
  /\ result' = EqualButForNames(lp, lp2)
  /\ op' = "equalButForNames"
  /\ UNCHANGED <<lp, lp2, op2, arg, pre, trip, orig, failed, installs>>

equalNames ==
  /\ result' = EqualNames(lp, lp2)
  /\ op' = "equalNames"
  /\ UNCHANGED <<lp, lp2, op2, arg, pre, trip, orig, failed, installs>>

equal ==
  /\ result' = Equal(lp, lp2)
  /\ op' = "operator=="
  /\ UNCHANGED <<lp, lp2, op2, arg, pre, trip, orig, failed, installs>>

NextEqual == equalButForNames \/ equalNames \/ equal

SpecEqual == InitEqual /\ [][NextEqual]_vars

\* the two objects agree on every member C2 lists
AgreeButForNames(a, b) ==
  /\ a.num_col_ = b.num_col_ /\ a.num_row_ = b.num_row_
  /\ a.sense_ = b.sense_ /\ a.offset_ = b.offset_
  /\ a.model_name_ = b.model_name_
  /\ a.col_cost_ = b.col_cost_
  /\ a.col_lower_ = b.col_lower_ /\ a.col_upper_ = b.col_upper_
  /\ a.row_lower_ = b.row_lower_ /\ a.row_upper_ = b.row_upper_
  /\ a.a_matrix_ = b.a_matrix_
  /\ a.scale_ = b.scale_

\* C2: equalButForNames(A, B) is true if and only if A and B agree on the
\* dimensions, sense, offset, model name, costs, column and row bounds, the
\* matrix and every field of the scale.
C2_EqualButForNamesIff ==
  op = "equalButForNames" => (result <=> AgreeButForNames(lp, lp2))

(***************************************************************************)
(* The modification journal.                                               *)
(***************************************************************************)
\* HighsLpMods::clear
ModsClear(mods) == ClearedMods

\* HighsLpMods::isClear: the nine tests in the order of the code (the sixth
\* and the seventh both read save_relaxed_semi_variable_lower_bound_value)
IsClear(mods) ==
  IF Len(mods.save_non_semi_variable_index) # 0 THEN FALSE
  ELSE IF Len(mods.save_inconsistent_semi_variable_index) # 0 THEN FALSE
  ELSE IF Len(mods.save_inconsistent_semi_variable_lower_bound_value) # 0
       THEN FALSE
  ELSE IF Len(mods.save_inconsistent_semi_variable_upper_bound_value) # 0
       THEN FALSE
  ELSE IF Len(mods.save_inconsistent_semi_variable_type) # 0 THEN FALSE
  ELSE IF Len(mods.save_relaxed_semi_variable_lower_bound_value) # 0 THEN FALSE
  ELSE IF Len(mods.save_relaxed_semi_variable_lower_bound_value) # 0 THEN FALSE
  ELSE IF Len(mods.save_tightened_semi_variable_upper_bound_index) # 0 THEN FALSE
  ELSE IF Len(mods.save_tightened_semi_variable_upper_bound_value) # 0 THEN FALSE
  ELSE TRUE

IsSemi(type) == type \in {"kSemiContinuous", "kSemiInteger"}
IsNonSemi(type) == type \in {"kContinuous", "kInteger"}

\* the outcome of a step of unapplyMods: the object, and whether the
\* assertions held (when they did not, lp is the object at the assertion)
Ran(l) == [lp |-> l, ok |-> TRUE]
Aborted(l) == [lp |-> l, ok |-> FALSE]

\* unapplyMods, "Restore any non-semi types": the loop from entry k on
RECURSIVE RestoreNonSemi(_, _)
RestoreNonSemi(l, k) ==
  IF k > Len(l.mods_.save_non_semi_variable_index) THEN Ran(l)
  ELSE LET iCol == l.mods_.save_non_semi_variable_index[k] + 1 IN
       IF ~IsNonSemi(l.integrality_[iCol]) THEN Aborted(l)
       ELSE RestoreNonSemi(
              [l EXCEPT !.integrality_[iCol] =
                 IF @ = "kContinuous" THEN "kSemiContinuous" ELSE "kSemiInteger"],
              k + 1)

\* the assertions on the sizes of the inconsistent-semi vectors
InconsistentSizesAssert(mods) ==
  Len(mods.save_inconsistent_semi_variable_index) = 0 =>
    /\ Len(mods.save_inconsistent_semi_variable_lower_bound_value) = 0
    /\ Len(mods.save_inconsistent_semi_variable_upper_bound_value) = 0
    /\ Len(mods.save_inconsistent_semi_variable_type) = 0

\* unapplyMods, "Restore any inconsistent semi variables": the loop from k on
RECURSIVE RestoreInconsistent(_, _)
RestoreInconsistent(l, k) ==
  IF k > Len(l.mods_.save_inconsistent_semi_variable_index) THEN Ran(l)
  ELSE LET iCol == l.mods_.save_inconsistent_semi_variable_index[k] + 1 IN
       RestoreInconsistent(
         [l EXCEPT
            !.col_lower_[iCol] =
               l.mods_.save_inconsistent_semi_variable_lower_bound_value[k],
            !.col_upper_[iCol] =
               l.mods_.save_inconsistent_semi_variable_upper_bound_value[k],
            !.integrality_[iCol] =
               l.mods_.save_inconsistent_semi_variable_type[k]],
         k + 1)

\* the lower-bound loop without its assertion on the type (lines 367-368)
RECURSIVE RestoreRelaxedLowerUnchecked(_, _)
RestoreRelaxedLowerUnchecked(l, k) ==
  IF k > Len(l.mods_.save_relaxed_semi_variable_lower_bound_index) THEN Ran(l)
  ELSE LET iCol == l.mods_.save_relaxed_semi_variable_lower_bound_index[k] + 1 IN
       RestoreRelaxedLowerUnchecked(
         [l EXCEPT !.col_lower_[iCol] =
            l.mods_.save_relaxed_semi_variable_lower_bound_value[k]],
         k + 1)

\* unapplyMods, "Restore any relaxed lower bounds": the loop from k on
RECURSIVE RestoreRelaxedLower(_, _)
RestoreRelaxedLower(l, k) ==
  IF k > Len(l.mods_.save_relaxed_semi_variable_lower_bound_index) THEN Ran(l)
  ELSE LET iCol == l.mods_.save_relaxed_semi_variable_lower_bound_index[k] + 1 IN
       IF ~IsSemi(l.integrality_[iCol]) THEN Aborted(l)
       ELSE RestoreRelaxedLower(
              [l EXCEPT !.col_lower_[iCol] =
                 l.mods_.save_relaxed_semi_variable_lower_bound_value[k]],
              k + 1)

\* the upper-bound loop writing the saved value to the lower bound
RECURSIVE RestoreTightenedUpperAsLower(_, _)
RestoreTightenedUpperAsLower(l, k) ==
  IF k > Len(l.mods_.save_tightened_semi_variable_upper_bound_index) THEN Ran(l)
  ELSE LET iCol == l.mods_.save_tightened_semi_variable_upper_bound_index[k] + 1 IN
       IF ~IsSemi(l.integrality_[iCol]) THEN Aborted(l)
       ELSE RestoreTightenedUpperAsLower(
              [l EXCEPT !.col_lower_[iCol] =
                 l.mods_.save_tightened_semi_variable_upper_bound_value[k]],
              k + 1)

\* unapplyMods, "Restore any tightened upper bounds": the loop from k on
RECURSIVE RestoreTightenedUpper(_, _)
RestoreTightenedUpper(l, k) ==
  IF k > Len(l.mods_.save_tightened_semi_variable_upper_bound_index) THEN Ran(l)
  ELSE LET iCol == l.mods_.save_tightened_semi_variable_upper_bound_index[k] + 1 IN
       IF ~IsSemi(l.integrality_[iCol]) THEN Aborted(l)
       ELSE RestoreTightenedUpper(
              [l EXCEPT !.col_upper_[iCol] =
                 l.mods_.save_tightened_semi_variable_upper_bound_value[k]],
              k + 1)

\* unapplyMods with the inconsistent-semi loop moved behind the two bound
\* loops
UnapplyModsInconsistentLast(l) ==
  LET r1 == RestoreNonSemi(l, 1) IN
  IF ~r1.ok THEN r1
  ELSE
  LET r3 == RestoreRelaxedLower(r1.lp, 1) IN
  IF ~r3.ok THEN r3
  ELSE
  LET r4 == RestoreTightenedUpper(r3.lp, 1) IN
  IF ~r4.ok THEN r4
  ELSE LET r2 == RestoreInconsistent(r4.lp, 1) IN
       Ran([r2.lp EXCEPT !.mods_ = ModsClear(@)])

\* HighsLp::unapplyMods: the four loops in the order of the code, then
\* mods_.clear()
UnapplyMods(l) ==
  LET r1 == RestoreNonSemi(l, 1) IN
  IF ~r1.ok THEN r1
  ELSE IF ~InconsistentSizesAssert(r1.lp.mods_) THEN Aborted(r1.lp)
  ELSE
  LET r2 == RestoreInconsistent(r1.lp, 1) IN
  IF Len(r2.lp.mods_.save_relaxed_semi_variable_lower_bound_index) = 0
     /\ Len(r2.lp.mods_.save_relaxed_semi_variable_lower_bound_value) # 0
  THEN Aborted(r2.lp)
  ELSE
  LET r3 == RestoreRelaxedLower(r2.lp, 1) IN
  IF ~r3.ok THEN r3
  ELSE IF Len(r3.lp.mods_.save_tightened_semi_variable_upper_bound_index) = 0
          /\ Len(r3.lp.mods_.save_tightened_semi_variable_upper_bound_value) # 0
  THEN Aborted(r3.lp)
  ELSE
  LET r4 == RestoreTightenedUpper(r3.lp, 1) IN
  IF ~r4.ok THEN r4
  ELSE Ran([r4.lp EXCEPT !.mods_ = ModsClear(@)])

(***************************************************************************)
(* The preprocessing stage that writes the journal.                        *)
(***************************************************************************)
\* the largest upper bound preprocessing leaves on a semi-variable
SemiVariableUpperCap == Rat(MaxBound, 1)

\* the number of entries of the four logs
JournalSize(mods) ==
  Len(mods.save_non_semi_variable_index)
  + Len(mods.save_inconsistent_semi_variable_index)
  + Len(mods.save_relaxed_semi_variable_lower_bound_index)
  + Len(mods.save_tightened_semi_variable_upper_bound_index)

\* x < y, x <= y on doubles
RLess(x, y) == x[1] * y[2] < y[1] * x[2]
RLeq(x, y) == x[1] * y[2] <= y[1] * x[2]

\* does the index vector hold the column (0-based index)?
InLog(index, col) == \E k \in DOMAIN index : index[k] = col

\* the models with semi-variables a caller passes in: column iCol is
\* semi-continuous or semi-integer, with consistent bounds for the seed 0
\* and lower > upper for the other seeds
SemiModelsOf(nc) ==
  { [NewLp EXCEPT
       !.num_col_ = nc,
       !.col_cost_ = [iCol \in 1..nc |-> Rat(iCol, 1)],
       !.col_lower_ = [iCol \in 1..nc |-> Rat(1 + ((v + iCol - 1) % 2), 1)],
       !.col_upper_ = [iCol \in 1..nc |-> Rat(1, 1)],
       !.integrality_ =
          [iCol \in 1..nc |->
             IF (v + iCol) % 2 = 0 THEN "kSemiContinuous" ELSE "kSemiInteger"]] :
      v \in 0..MaxVal }

\* log 1: a semi-variable becomes continuous or integer; its index is saved
downgradeType(l, col) ==
  [l EXCEPT
     !.integrality_[col + 1] =
        IF @ = "kSemiContinuous" THEN "kContinuous" ELSE "kInteger",
     !.mods_.save_non_semi_variable_index = Append(@, col)]

\* log 2: the inconsistent bounds (lower > upper) of a semi-variable are
\* replaced by lower and upper and its type by type; the three old values
\* are saved
correctInconsistent(l, col, lower, upper, type) ==
  [l EXCEPT
     !.col_lower_[col + 1] = lower,
     !.col_upper_[col + 1] = upper,
     !.integrality_[col + 1] = type,
     !.mods_.save_inconsistent_semi_variable_index = Append(@, col),
     !.mods_.save_inconsistent_semi_variable_lower_bound_value =
        Append(@, l.col_lower_[col + 1]),
     !.mods_.save_inconsistent_semi_variable_upper_bound_value =
        Append(@, l.col_upper_[col + 1]),
     !.mods_.save_inconsistent_semi_variable_type =
        Append(@, l.integrality_[col + 1])]

\* log 3: the lower bound of a semi-variable is lowered; the old one is saved
relaxLower(l, col, lower) ==
  [l EXCEPT
     !.col_lower_[col + 1] = lower,
     !.mods_.save_relaxed_semi_variable_lower_bound_index = Append(@, col),
     !.mods_.save_relaxed_semi_variable_lower_bound_value =
        Append(@, l.col_lower_[col + 1])]

\* log 4: the upper bound of a semi-variable is replaced; the old one is saved
tightenUpper(l, col, upper) ==
  [l EXCEPT
     !.col_upper_[col + 1] = upper,
     !.mods_.save_tightened_semi_variable_upper_bound_index = Append(@, col),
     !.mods_.save_tightened_semi_variable_upper_bound_value =
        Append(@, l.col_upper_[col + 1])]

(***************************************************************************)
(* Specification SpecMods: preprocessing edits semi-variables and writes   *)
(* the journal; unapplyMods restores.  orig is the object when the journal *)
(* was last empty, i.e. before the first edit.                             *)
(***************************************************************************)
InitMods == lp = NewLp /\ InitCommon

Edit(name, col, newlp) ==
  /\ JournalSize(lp.mods_) < MaxEdits
  /\ lp' = newlp
  /\ op' = name /\ arg' = col /\ pre' = lp
  /\ orig' = IF lp.mods_ = ClearedMods THEN lp ELSE orig
  /\ UNCHANGED <<lp2, op2, trip, result, failed, installs>>

passSemiModel ==
  /\ ~failed /\ lp = NewLp
  /\ \E nc \in 1..MaxCol : \E m \in SemiModelsOf(nc) : lp' = m
  /\ op' = "passSemiModel" /\ arg' = Null /\ pre' = lp
  /\ UNCHANGED <<lp2, op2, trip, orig, result, failed, installs>>

editDowngradeType ==
  /\ ~failed
  /\ \E col \in 0..(lp.num_col_ - 1) :
       /\ col < Len(lp.integrality_)
       /\ IsSemi(lp.integrality_[col + 1])
       /\ ~InLog(lp.mods_.save_non_semi_variable_index, col)
       /\ Edit("downgradeType", col, downgradeType(lp, col))

\* the bounds are either both fixed at zero or the lower bound is pulled
\* down to the upper bound; the type is kept or becomes continuous
editCorrectInconsistent ==
  /\ ~failed
  /\ \E col \in 0..(lp.num_col_ - 1) :
       /\ col < Len(lp.integrality_)
       /\ IsSemi(lp.integrality_[col + 1])
       /\ RLess(lp.col_upper_[col + 1], lp.col_lower_[col + 1])
       /\ ~InLog(lp.mods_.save_inconsistent_semi_variable_index, col)
       /\ \E bound \in {Rat(0, 1), lp.col_upper_[col + 1]},
            type \in {lp.integrality_[col + 1], "kContinuous"} :
            Edit("correctInconsistent", col,
                 correctInconsistent(lp, col, bound, bound, type))

\* the lower bound is relaxed to zero
editRelaxLower ==
  /\ ~failed
  /\ \E col \in 0..(lp.num_col_ - 1) :
       /\ col < Len(lp.integrality_)
       /\ IsSemi(lp.integrality_[col + 1])
       /\ ~InLog(lp.mods_.save_relaxed_semi_variable_lower_bound_index, col)
       /\ RLess(Rat(0, 1), lp.col_lower_[col + 1])
       /\ Edit("relaxLower", col, relaxLower(lp, col, Rat(0, 1)))

\* the upper bound is set to the cap
editTightenUpper ==
  /\ ~failed
  /\ \E col \in 0..(lp.num_col_ - 1) :
       /\ col < Len(lp.integrality_)
       /\ IsSemi(lp.integrality_[col + 1])
       /\ ~InLog(lp.mods_.save_tightened_semi_variable_upper_bound_index, col)
       /\ SemiVariableUpperCap # lp.col_upper_[col + 1]
       /\ Edit("tightenUpper", col, tightenUpper(lp, col, SemiVariableUpperCap))

unapplyMods ==
  /\ ~failed
  /\ lp.num_col_ > 0
  /\ lp' = UnapplyMods(lp).lp
  /\ failed' = ~UnapplyMods(lp).ok
  /\ op' = "unapplyMods" /\ arg' = Null /\ pre' = lp
  /\ UNCHANGED <<lp2, op2, trip, orig, result, installs>>

isClear ==
  /\ ~failed
  /\ result' = IsClear(lp.mods_)
  /\ op' = "isClear"
  /\ UNCHANGED <<lp, lp2, op2, arg, pre, trip, orig, failed, installs>>

NextMods ==
  \/ passSemiModel \/ editDowngradeType \/ editCorrectInconsistent
  \/ editRelaxLower \/ editTightenUpper \/ unapplyMods \/ isClear

SpecMods == InitMods /\ [][NextMods]_vars

(***************************************************************************)
(* Specification SpecIsClear: isClear on every journal whose nine vectors  *)
(* hold at most MaxLog entries each.                                       *)
(***************************************************************************)
\* the vectors of length at most MaxLog whose entries all equal x
Repeated(x) == {[k \in 1..n |-> x] : n \in 0..MaxLog}

InitIsClear ==
  /\ \E i1 \in Repeated(0), i2 \in Repeated(0), l2 \in Repeated(Rat(1, 1)),
        u2 \in Repeated(Rat(0, 1)), t2 \in Repeated("kSemiContinuous"),
        i3 \in Repeated(0), l3 \in Repeated(Rat(1, 1)),
        i4 \in Repeated(0), u4 \in Repeated(Rat(1, 1)) :
       lp = [NewLp EXCEPT !.mods_ =
               [save_non_semi_variable_index |-> i1,
                save_inconsistent_semi_variable_index |-> i2,
                save_inconsistent_semi_variable_lower_bound_value |-> l2,
                save_inconsistent_semi_variable_upper_bound_value |-> u2,
                save_inconsistent_semi_variable_type |-> t2,
                save_relaxed_semi_variable_lower_bound_index |-> i3,
                save_relaxed_semi_variable_lower_bound_value |-> l3,
                save_tightened_semi_variable_upper_bound_index |-> i4,
                save_tightened_semi_variable_upper_bound_value |-> u4]]
  /\ InitCommon

\* HighsLpMods::clear called on the journal
modsClear ==
  /\ ~failed
  /\ lp' = [lp EXCEPT !.mods_ = ModsClear(@)]
  /\ op' = "modsClear" /\ arg' = Null /\ pre' = lp
  /\ UNCHANGED <<lp2, op2, trip, orig, result, failed, installs>>

NextIsClear == isClear \/ modsClear

SpecIsClear == InitIsClear /\ [][NextIsClear]_vars

(***************************************************************************)
(* Claims on the journal.                                                  *)
(***************************************************************************)
\* every one of the nine stored sequences has length zero
ModsAllEmpty(mods) ==
  /\ Len(mods.save_non_semi_variable_index) = 0
  /\ Len(mods.save_inconsistent_semi_variable_index) = 0
  /\ Len(mods.save_inconsistent_semi_variable_lower_bound_value) = 0
  /\ Len(mods.save_inconsistent_semi_variable_upper_bound_value) = 0
  /\ Len(mods.save_inconsistent_semi_variable_type) = 0
  /\ Len(mods.save_relaxed_semi_variable_lower_bound_index) = 0
  /\ Len(mods.save_relaxed_semi_variable_lower_bound_value) = 0
  /\ Len(mods.save_tightened_semi_variable_upper_bound_index) = 0
  /\ Len(mods.save_tightened_semi_variable_upper_bound_value) = 0

\* the type and the bounds of every column
ColumnState(l) == <<l.integrality_, l.col_lower_, l.col_upper_>>

\* C3: after unapplyMods, every column's type, lower bound and upper bound
\* equal their values before the first journaled edit, whichever of the
\* four logs the column appears in.
C3_JournalRoundTrip ==
  (op = "unapplyMods" /\ pre.mods_ # ClearedMods) =>
    ColumnState(lp) = ColumnState(orig)

\* the number of logs whose index vector holds the column
LogsHolding(mods, col) ==
  (IF InLog(mods.save_non_semi_variable_index, col) THEN 1 ELSE 0)
  + (IF InLog(mods.save_inconsistent_semi_variable_index, col) THEN 1 ELSE 0)
  + (IF InLog(mods.save_relaxed_semi_variable_lower_bound_index, col) THEN 1 ELSE 0)
  + (IF InLog(mods.save_tightened_semi_variable_upper_bound_index, col) THEN 1 ELSE 0)

\* no column appears in more than one log
DisjointLogs(l) ==
  \A col \in 0..(l.num_col_ - 1) : LogsHolding(l.mods_, col) <= 1

\* the type preconditions of unapplyMods on the journal of l
JournalPreconditions(l) ==
  /\ \A k \in DOMAIN l.mods_.save_non_semi_variable_index :
       IsNonSemi(l.integrality_[l.mods_.save_non_semi_variable_index[k] + 1])
  /\ \A k \in DOMAIN l.mods_.save_relaxed_semi_variable_lower_bound_index :
       IsSemi(l.integrality_[
                l.mods_.save_relaxed_semi_variable_lower_bound_index[k] + 1])
  /\ \A k \in DOMAIN l.mods_.save_tightened_semi_variable_upper_bound_index :
       IsSemi(l.integrality_[
                l.mods_.save_tightened_semi_variable_upper_bound_index[k] + 1])

\* unapplyMods has just run on a journal that meets the preconditions and
\* in which no column is in more than one log
RestoredDisjoint ==
  op = "unapplyMods" /\ DisjointLogs(pre) /\ JournalPreconditions(pre)

\* C4: on such a journal unapplyMods leaves every log-2 column with its
\* saved lower bound, upper bound and type, every log-3 column with its
\* saved lower bound, every log-4 column with its saved upper bound, all
\* logs empty and isClear() true.
C4_UnapplyModsRestoresSaved ==
  RestoredDisjoint =>
    /\ ~failed
    /\ \A k \in DOMAIN pre.mods_.save_inconsistent_semi_variable_index :
         LET iCol == pre.mods_.save_inconsistent_semi_variable_index[k] + 1 IN
         /\ lp.col_lower_[iCol] =
              pre.mods_.save_inconsistent_semi_variable_lower_bound_value[k]
         /\ lp.col_upper_[iCol] =
              pre.mods_.save_inconsistent_semi_variable_upper_bound_value[k]
         /\ lp.integrality_[iCol] =
              pre.mods_.save_inconsistent_semi_variable_type[k]
    /\ \A k \in DOMAIN pre.mods_.save_relaxed_semi_variable_lower_bound_index :
         lp.col_lower_[pre.mods_.save_relaxed_semi_variable_lower_bound_index[k] + 1]
           = pre.mods_.save_relaxed_semi_variable_lower_bound_value[k]
    /\ \A k \in DOMAIN pre.mods_.save_tightened_semi_variable_upper_bound_index :
         lp.col_upper_[pre.mods_.save_tightened_semi_variable_upper_bound_index[k] + 1]
           = pre.mods_.save_tightened_semi_variable_upper_bound_value[k]
    /\ ModsAllEmpty(lp.mods_)
    /\ IsClear(lp.mods_)

\* a restore of a journal with entries in log 2 and in log 4 (of different
\* columns) that changed both columns
C4_Witness ==
  /\ RestoredDisjoint
  /\ Len(pre.mods_.save_inconsistent_semi_variable_index) > 0
  /\ Len(pre.mods_.save_tightened_semi_variable_upper_bound_index) > 0
  /\ lp.col_lower_ # pre.col_lower_
  /\ lp.col_upper_ # pre.col_upper_

\* C5: isClear() returns true if and only if every one of the nine stored
\* sequences has length zero.
C5_IsClearIffAllEmpty ==
  op = "isClear" => (result <=> ModsAllEmpty(lp.mods_))

(***************************************************************************)
(* The name hash.  name2index is a function from the names it holds to     *)
(* their stored index.                                                     *)
(***************************************************************************)
\* the index stored for a name that occurs more than once
kHashIsDuplicate == -1

\* the outcome of form: the mapping, and whether its assertions held
Formed(h) == [hash |-> h, ok |-> TRUE]
FormAborted(h) == [hash |-> h, ok |-> FALSE]

\* HighsNameHash::form, the loop from position index on (C++ index - 1)
RECURSIVE FormFrom(_, _, _)
FormFrom(h, name, index) ==
  IF index > Len(name) THEN Formed(h)
  ELSE IF name[index] \notin DOMAIN h
       THEN FormFrom(h @@ (name[index] :> index - 1), name, index + 1)
       ELSE IF ~(h[name[index]] < Cardinality(DOMAIN h))
            THEN FormAborted(h)
            ELSE FormFrom([h EXCEPT ![name[index]] = kHashIsDuplicate],
                          name, index + 1)

\* HighsNameHash::form on the object whose mapping is h
Form(h, name) == FormFrom(EmptyHash, name, 1)

\* the loop of hasDuplicate from position index on: the transient mapping
\* and the flag when the loop ends
RECURSIVE HasDuplicateFrom(_, _, _)
HasDuplicateFrom(h, name, index) ==
  IF index > Len(name) THEN [hash |-> h, has_duplicate |-> FALSE]
  ELSE IF name[index] \in DOMAIN h
       THEN [hash |-> h, has_duplicate |-> TRUE]
       ELSE HasDuplicateFrom(h @@ (name[index] :> index - 1), name, index + 1)

\* hasDuplicate without the clear() after the loop
HasDuplicateKeepsTransient(h, name) ==
  [hash |-> HasDuplicateFrom(EmptyHash, name, 1).hash,
   result |-> HasDuplicateFrom(EmptyHash, name, 1).has_duplicate]

\* HighsNameHash::hasDuplicate on the object whose mapping is h: the mapping
\* it leaves and the value it returns
HasDuplicate(h, name) ==
  [hash |-> EmptyHash,
   result |-> HasDuplicateFrom(EmptyHash, name, 1).has_duplicate]

(***************************************************************************)
(* Specification SpecHash: form, hasDuplicate and clear on the column hash *)
(* of one object, for every name sequence of at most MaxLen names.         *)
(***************************************************************************)
NamePool == {"x1", "x2"}

NameSequences == UNION {[1..n -> NamePool] : n \in 0..MaxLen}

InitHash == lp = NewLp /\ InitCommon

hashForm ==
  /\ ~failed
  /\ \E name \in NameSequences :
       /\ lp' = [lp EXCEPT !.col_hash_ = Form(@, name).hash]
       /\ failed' = ~Form(lp.col_hash_, name).ok
       /\ Log("form", name)
  /\ UNCHANGED <<lp2, trip, orig, result, installs>>

hashHasDuplicate ==
  /\ ~failed
  /\ \E name \in NameSequences :
       /\ lp' = [lp EXCEPT !.col_hash_ = HasDuplicate(@, name).hash]
       /\ result' = HasDuplicate(lp.col_hash_, name).result
       /\ Log("hasDuplicate", name)
  /\ UNCHANGED <<lp2, trip, orig, failed, installs>>

hashClear ==
  /\ ~failed
  /\ lp' = [lp EXCEPT !.col_hash_ = EmptyHash]
  /\ Log("hashClear", Null)
  /\ UNCHANGED <<lp2, trip, orig, result, failed, installs>>

NextHash == hashForm \/ hashHasDuplicate \/ hashClear

SpecHash == InitHash /\ [][NextHash]_vars

(***************************************************************************)
(* Claims on the name hash.                                                *)
(***************************************************************************)
\* the positions (C++ indices) at which the sequence holds the name
Positions(name, n) == {i \in 0..(Len(name) - 1) : name[i + 1] = n}

\* the mapping C8 describes for a name sequence
DescribedMapping(name) ==
  [n \in {name[i] : i \in DOMAIN name} |->
     IF Cardinality(Positions(name, n)) = 1
     THEN CHOOSE i \in Positions(name, n) : TRUE
     ELSE kHashIsDuplicate]

\* C8: form, for every name sequence, produces the mapping whose keys are
\* the distinct names, a name occurring once mapped to its position and a
\* name occurring twice or more mapped to the duplicate sentinel.
C8_FormMapping ==
  op = "form" => (~failed /\ lp.col_hash_ = DescribedMapping(arg))

\* C9: hasDuplicate on a hash whose mapping was built by form leaves that
\* mapping as it was.
C9_HasDuplicateKeepsMapping ==
  (op = "hasDuplicate" /\ op2 = "form") => lp.col_hash_ = pre.col_hash_

\* C9 as amended: hasDuplicate leaves the mapping of the object empty,
\* whatever form had built before.
C9_HasDuplicateEmptiesMapping ==
  (op = "hasDuplicate" /\ op2 = "form") => lp.col_hash_ = EmptyHash

\* hasDuplicate has run on a mapping form had filled
C9_Witness ==
  /\ op = "hasDuplicate" /\ op2 = "form"
  /\ pre.col_hash_ # EmptyHash
  /\ Len(arg) > 1
  /\ lp.col_hash_ = EmptyHash

(***************************************************************************)
(* Synthetic names.                                                        *)
(***************************************************************************)
Digit(d) ==
  CASE d = 0 -> "0" [] d = 1 -> "1" [] d = 2 -> "2" [] d = 3 -> "3"
    [] d = 4 -> "4" [] d = 5 -> "5" [] d = 6 -> "6" [] d = 7 -> "7"
    [] d = 8 -> "8" [] d = 9 -> "9"

\* std::to_string of a non-negative integer
RECURSIVE to_string(_)
to_string(n) == IF n < 10 THEN Digit(n) ELSE to_string(n \div 10) \o Digit(n % 10)

\* the outcome of addColNames / addRowNames: the object, whether its
\* assertions held, and where the loop gave up (the C++ index it was at, -1
\* if it did not; found tells whether the synthesized name was in the hash)
Named(l) == [lp |-> l, ok |-> TRUE, stopped |-> -1, found |-> FALSE]
NamingAborted(l) == [lp |-> l, ok |-> FALSE, stopped |-> -1, found |-> FALSE]

\* the else branch of addColNames (lines 272-276) without the clear()
StopColNamingKeepsHash(l, iCol, found) ==
  [lp |-> l, ok |-> TRUE, stopped |-> iCol, found |-> found]

\* the else branch of addColNames (lines 272-276): "Duplicate name or other
\* failure": the hash is cleared and the call returns
StopColNaming(l, iCol, found) ==
  [lp |-> [l EXCEPT !.col_hash_ = EmptyHash],
   ok |-> TRUE, stopped |-> iCol, found |-> found]

\* the else branch of addRowNames (lines 316-320)
StopRowNaming(l, iRow, found) ==
  [lp |-> [l EXCEPT !.row_hash_ = EmptyHash],
   ok |-> TRUE, stopped |-> iRow, found |-> found]

\* HighsLp::addColNames, the loop from column iCol (C++ index) up to, not
\* including, last; col_names_size is the size read before the loop
RECURSIVE AddColNamesFrom(_, _, _, _)
AddColNamesFrom(l, iCol, last, col_names_size) ==
  IF iCol >= last THEN Named(l)
  ELSE
  LET col_name == "col_ekk_" \o to_string(l.new_col_name_ix_)
      l1 == [l EXCEPT !.new_col_name_ix_ = @ + 1]
      found == col_name \in DOMAIN l1.col_hash_
      pushes == ~found /\ col_names_size = l1.num_col_
      writes == /\ ~found /\ col_names_size # l1.num_col_
                /\ col_names_size > iCol
                /\ l1.col_names_[iCol + 1] = ""
      l2 == IF pushes THEN [l1 EXCEPT !.col_names_ = Append(@, col_name)]
            ELSE IF writes THEN [l1 EXCEPT !.col_names_[iCol + 1] = col_name]
            ELSE l1
      added == pushes \/ writes
  IN  IF added
      THEN LET l3 == [l2 EXCEPT !.col_hash_ = @ @@ (col_name :> iCol)] IN
           IF /\ iCol < Len(l3.col_names_)
              /\ l3.col_names_[iCol + 1] = col_name
              /\ l3.col_hash_[col_name] = iCol
           THEN AddColNamesFrom(l3, iCol + 1, last, col_names_size)
           ELSE NamingAborted(l3)
      ELSE StopColNaming(l2, iCol, found)

\* HighsLp::addColNames(name, num_new_col)
AddColNames(l, name, num_new_col) ==
  IF l.num_col_ = 0 THEN Named(l)
  ELSE IF Len(l.col_names_) < l.num_col_ THEN Named(l)
  ELSE
  LET formed == IF DOMAIN l.col_hash_ = {}
                THEN Form(l.col_hash_, l.col_names_)
                ELSE Formed(l.col_hash_)
      l1 == [l EXCEPT !.col_hash_ = formed.hash]
  IN  IF ~formed.ok THEN NamingAborted(l1)
      ELSE IF name # "" THEN NamingAborted(l1)
      ELSE AddColNamesFrom(l1, l.num_col_, l.num_col_ + num_new_col,
                           Len(l.col_names_))

\* HighsLp::addRowNames, the loop from row iRow (C++ index) up to, not
\* including, last; row_names_size is the size read before the loop
RECURSIVE AddRowNamesFrom(_, _, _, _)
AddRowNamesFrom(l, iRow, last, row_names_size) ==
  IF iRow >= last THEN Named(l)
  ELSE
  LET row_name == "row_ekk_" \o to_string(l.new_row_name_ix_)
      l1 == [l EXCEPT !.new_row_name_ix_ = @ + 1]
      found == row_name \in DOMAIN l1.row_hash_
      pushes == ~found /\ row_names_size = l1.num_row_
      writes == /\ ~found /\ row_names_size # l1.num_row_
                /\ row_names_size > iRow
                /\ l1.row_names_[iRow + 1] = ""
      l2 == IF pushes THEN [l1 EXCEPT !.row_names_ = Append(@, row_name)]
            ELSE IF writes THEN [l1 EXCEPT !.row_names_[iRow + 1] = row_name]
            ELSE l1
      added == pushes \/ writes
  IN  IF added
      THEN LET l3 == [l2 EXCEPT !.row_hash_ = @ @@ (row_name :> iRow)] IN
           IF /\ iRow < Len(l3.row_names_)
              /\ l3.row_names_[iRow + 1] = row_name
              /\ l3.row_hash_[row_name] = iRow
           THEN AddRowNamesFrom(l3, iRow + 1, last, row_names_size)
           ELSE NamingAborted(l3)
      ELSE StopRowNaming(l2, iRow, found)

\* HighsLp::addRowNames(name, num_new_row)
AddRowNames(l, name, num_new_row) ==
  IF l.num_row_ = 0 THEN Named(l)
  ELSE IF Len(l.row_names_) < l.num_row_ THEN Named(l)
  ELSE
  LET formed == IF DOMAIN l.row_hash_ = {}
                THEN Form(l.row_hash_, l.row_names_)
                ELSE Formed(l.row_hash_)
      l1 == [l EXCEPT !.row_hash_ = formed.hash]
  IN  IF ~formed.ok THEN NamingAborted(l1)
      ELSE IF name # "" THEN NamingAborted(l1)
      ELSE AddRowNamesFrom(l1, l.num_row_, l.num_row_ + num_new_row,
                           Len(l.row_names_))

(***************************************************************************)
(* Specification SpecNames: a caller passes in columns (or rows) with      *)
(* names (none, one per column, or one per column followed by blank slots  *)
(* for columns to come), then adds columns: addColNames("", k) followed by *)
(* num_col_ += k (rows alike); clear() starts over.  addColNames returns   *)
(* nothing, so the caller adds its columns whether or not names were made. *)
(***************************************************************************)
UserNames == {"a", "col_ekk_1"}

UserRowNames == {"a", "row_ekk_1"}

\* n blank names
Blanks(n) == [i \in 1..n |-> ""]

\* the name vectors a caller passes in for nc columns, out of the names pool
PassedFrom(pool, nc) ==
  {<<>>} \cup {names \o Blanks(b) : names \in [1..nc -> pool], b \in 0..MaxBlank}

\* the column name vectors a caller passes in for nc columns
PassedNames(nc) == PassedFrom(UserNames, nc)

\* where and why the last naming call gave up
Outcome(r) == [stopped |-> r.stopped, found |-> r.found]

InitNames == lp = NewLp /\ InitCommon

passNames ==
  /\ ~failed /\ lp = NewLp
  /\ \E nc \in 1..MaxLen : \E names \in PassedNames(nc) :
       /\ lp' = [lp EXCEPT !.num_col_ = nc, !.col_names_ = names]
       /\ Log("passNames", names)
  /\ UNCHANGED <<lp2, trip, orig, result, failed, installs>>

passRowNames ==
  /\ ~failed /\ lp = NewLp
  /\ \E nr \in 1..MaxRow : \E names \in PassedFrom(UserRowNames, nr) :
       /\ lp' = [lp EXCEPT !.num_row_ = nr, !.row_names_ = names]
       /\ Log("passRowNames", names)
  /\ UNCHANGED <<lp2, trip, orig, result, failed, installs>>

addCols ==
  /\ ~failed
  /\ \E num_new_col \in 1..MaxNew :
       /\ lp.num_col_ + num_new_col <= MaxNames
       /\ LET r == AddColNames(lp, "", num_new_col) IN
          /\ failed' = ~r.ok
          /\ lp' = IF r.ok THEN [r.lp EXCEPT !.num_col_ = @ + num_new_col]
                   ELSE r.lp
          /\ result' = Outcome(r)
       /\ Log("addCols", num_new_col)
  /\ UNCHANGED <<lp2, trip, orig, installs>>

addRows ==
  /\ ~failed
  /\ \E num_new_row \in 1..MaxNew :
       /\ lp.num_row_ + num_new_row <= MaxNames
       /\ LET r == AddRowNames(lp, "", num_new_row) IN
          /\ failed' = ~r.ok
          /\ lp' = IF r.ok THEN [r.lp EXCEPT !.num_row_ = @ + num_new_row]
                   ELSE r.lp
          /\ result' = Outcome(r)
       /\ Log("addRows", num_new_row)
  /\ UNCHANGED <<lp2, trip, orig, installs>>

NextNames == passNames \/ passRowNames \/ addCols \/ addRows \/ clear

SpecNames == InitNames /\ [][NextNames]_vars

(***************************************************************************)
(* Claims on synthetic names.                                              *)
(***************************************************************************)
\* C10: every entry name -> i of the column hash whose value is not the
\* duplicate sentinel satisfies i < length(col_names) and
\* col_names[i] = name.
C10_NoStaleIndex ==
  \A name \in DOMAIN lp.col_hash_ :
    lp.col_hash_[name] # kHashIsDuplicate =>
      /\ lp.col_hash_[name] < Len(lp.col_names_)
      /\ lp.col_names_[lp.col_hash_[name] + 1] = name

\* the elements of a sequence
Range(seq) == {seq[i] : i \in DOMAIN seq}

\* prefix_c, ..., prefix_(c+k-1)
SyntheticNames(prefix, c, k) == [i \in 1..k |-> prefix \o to_string(c + i - 1)]

\* the case of C11: n >= 1 entries, exactly n names, and none of the k names
\* to be synthesized from counter c among them
NamingApplies(n, names, prefix, c, k) ==
  /\ n >= 1 /\ Len(names) = n
  /\ Range(SyntheticNames(prefix, c, k)) \cap Range(names) = {}

\* the outcome C11 describes: the old names followed by the synthesized ones,
\* the counter at c + k, each new name hashed to its index n .. n+k-1
NamingSucceeded(n, names, prefix, c, k, names1, c1, hash1) ==
  /\ names1 = names \o SyntheticNames(prefix, c, k)
  /\ c1 = c + k
  /\ \A i \in 1..k :
       /\ SyntheticNames(prefix, c, k)[i] \in DOMAIN hash1
       /\ hash1[SyntheticNames(prefix, c, k)[i]] = n + i - 1

\* C11: on a model with n >= 1 columns, exactly n names, counter c and none
\* of col_ekk_c .. col_ekk_(c+k-1) among the names, addColNames("", k) appends
\* exactly these names in order, advances the counter to c + k and hashes
\* each new name to its column index; addRowNames alike with row_ekk_.
C11_SuccessfulNaming ==
  /\ (/\ op = "addCols"
      /\ NamingApplies(pre.num_col_, pre.col_names_, "col_ekk_",
                       pre.new_col_name_ix_, arg))
     => /\ ~failed
        /\ NamingSucceeded(pre.num_col_, pre.col_names_, "col_ekk_",
                           pre.new_col_name_ix_, arg,
                           lp.col_names_, lp.new_col_name_ix_, lp.col_hash_)
  /\ (/\ op = "addRows"
      /\ NamingApplies(pre.num_row_, pre.row_names_, "row_ekk_",
                       pre.new_row_name_ix_, arg))
     => /\ ~failed
        /\ NamingSucceeded(pre.num_row_, pre.row_names_, "row_ekk_",
                           pre.new_row_name_ix_, arg,
                           lp.row_names_, lp.new_row_name_ix_, lp.row_hash_)

\* the last addColNames gave up at column result.stopped because the name it
\* synthesized was in the hash
ColCollision ==
  /\ op = "addCols" /\ ~failed
  /\ result.stopped >= 0 /\ result.found

\* the names at C++ positions j and later
NamesFrom(names, j) == SubSeq(names, j + 1, Len(names))

\* C12: when the name synthesized for column j is already in the hash,
\* addColNames returns with the hash empty and the names at positions >= j
\* as they were before the call.
C12_CollisionAbort ==
  ColCollision =>
    /\ lp.col_hash_ = EmptyHash
    /\ NamesFrom(lp.col_names_, result.stopped)
         = NamesFrom(pre.col_names_, result.stopped)

\* a collision at the second column of a batch, with a blank slot after it
\* that stayed blank
C12_Witness ==
  /\ ColCollision
  /\ result.stopped > pre.num_col_
  /\ Len(pre.col_names_) > result.stopped
  /\ lp.col_names_[result.stopped + 1] = ""

\* C13: an addColNames call that aborts on a collision leaves the column
\* names as they were before the call, also when the collision is at the
\* second or a later column of the batch.
C13_AbortRollsBack ==
  ColCollision => lp.col_names_ = pre.col_names_

(***************************************************************************)
(* Specification SpecClear: clear() and operator== on objects in which     *)
(* everything is populated at once.  The objects are built with the        *)
(* operations above: a passed model with semi-variables, rows and names,   *)
(* then preprocessing edits, a scale installed and applied, and names      *)
(* synthesized for added columns and rows.                                 *)
(***************************************************************************)
\* the models a caller passes in: costs, bounds and matrix of ModelsOf,
\* bounds and types of SemiModelsOf, one name per column and row
PassedModels ==
  { [m EXCEPT
       !.col_lower_ = s.col_lower_, !.col_upper_ = s.col_upper_,
       !.integrality_ = s.integrality_,
       !.col_names_ = [iCol \in 1..MaxCol |-> IF iCol = 1 THEN "a" ELSE "col_ekk_1"],
       !.row_names_ = [iRow \in 1..MaxRow |-> "a"],
       !.sense_ = "kMaximize", !.offset_ = Rat(1, 1),
       !.model_name_ = "m", !.objective_name_ = "obj"] :
      m \in ModelsOf(MaxCol, MaxRow), s \in SemiModelsOf(MaxCol) }

\* m after none, one or two preprocessing edits of column 0
EditedFrom(m) ==
  {m, relaxLower(m, 0, Rat(0, 1)), downgradeType(m, 0),
   downgradeType(relaxLower(m, 0, Rat(0, 1)), 0)}

\* m with no scale, with a scale installed, and with it applied
ScaledFrom(m) ==
  {m} \cup {[m EXCEPT !.scale_ = s] : s \in FormedScales(m)}
      \cup {ApplyScale([m EXCEPT !.scale_ = s]) : s \in FormedScales(m)}

\* m after kc columns and kr rows were added with synthetic names
NamedFrom(m, kc, kr) ==
  LET c == [AddColNames(m, "", kc).lp EXCEPT !.num_col_ = @ + kc]
  IN  [AddRowNames(c, "", kr).lp EXCEPT !.num_row_ = @ + kr]

Populated ==
  UNION { UNION { UNION { {NamedFrom(s, kc, kr) : kc \in 0..MaxNew, kr \in 0..MaxNew} :
                          s \in ScaledFrom(e) } :
                  e \in EditedFrom(m) } :
          m \in PassedModels }

\* one object in which scale, journal, hashes and counters are all in use
FullyPopulated ==
  LET m == CHOOSE x \in PassedModels : TRUE
      e == downgradeType(relaxLower(m, 0, Rat(0, 1)), 0)
      s == CHOOSE x \in FormedScales(e) : TRUE
  IN  NamedFrom(ApplyScale([e EXCEPT !.scale_ = s]), MaxNew, MaxNew)

InitClear ==
  /\ lp \in Populated /\ lp2 = FullyPopulated
  /\ op = "init" /\ op2 = "init" /\ arg = Null /\ pre = Null
  /\ trip = Null /\ orig = Null /\ result = Null /\ failed = FALSE
  /\ installs = 0

\* clear() on the second object
clearOther ==
  /\ ~failed
  /\ lp2' = Clear(lp2)
  /\ op' = "clearOther"
  /\ UNCHANGED <<lp, op2, arg, pre, trip, orig, result, failed, installs>>

NextClear == clear \/ clearOther \/ equal

SpecClear == InitClear /\ [][NextClear]_vars

\* the creation-time state as C14 lists it
CreationState(l) ==
  /\ l.num_col_ = 0 /\ l.num_row_ = 0
  /\ l.col_cost_ = <<>> /\ l.col_lower_ = <<>> /\ l.col_upper_ = <<>>
  /\ l.row_lower_ = <<>> /\ l.row_upper_ = <<>>
  /\ l.col_names_ = <<>> /\ l.row_names_ = <<>> /\ l.integrality_ = <<>>
  /\ l.sense_ = "kMinimize" /\ l.offset_ = Rat(0, 1)
  /\ l.model_name_ = "" /\ l.objective_name_ = ""
  /\ l.scale_.strategy = "kSimplexScaleStrategyOff"
  /\ ~l.scale_.has_scaling
  /\ l.scale_.num_col = 0 /\ l.scale_.num_row = 0
  /\ l.scale_.cost = Rat(0, 1)
  /\ l.scale_.col = <<>> /\ l.scale_.row = <<>>
  /\ ~l.is_scaled_
  /\ l.new_col_name_ix_ = 0 /\ l.new_row_name_ix_ = 0
  /\ DOMAIN l.col_hash_ = {} /\ DOMAIN l.row_hash_ = {}
  /\ ModsAllEmpty(l.mods_)

\* C14: clear() on a model in any state (scaled or not, journal, names,
\* hashes populated or not, counters advanced) yields the creation-time
\* state, and two cleared models are equal under operator==.
C14_ClearYieldsCreationState ==
  /\ op = "clear" => (CreationState(lp) /\ ~failed)
  /\ (op = "operator==" /\ op2 = "clearOther") => result = TRUE

\* clear() of an object that was scaled, with a journal, both hashes built
\* and both counters advanced
C14_Witness ==
  /\ op = "clear"
  /\ pre.is_scaled_ /\ pre.scale_.has_scaling
  /\ pre.mods_ # ClearedMods
  /\ DOMAIN pre.col_hash_ # {} /\ DOMAIN pre.row_hash_ # {}
  /\ pre.new_col_name_ix_ > 0 /\ pre.new_row_name_ix_ > 0
  /\ pre.sense_ = "kMaximize"
  /\ CreationState(lp)

(***************************************************************************)
(* Claims on clearScaling (specification SpecScale).                       *)
(***************************************************************************)
\* the last operation was clearScaling, called in a state with
\* is_scaled => has_scaling
ClearedScaling ==
  /\ op = "clearScaling"
  /\ pre.is_scaled_ => pre.scale_.has_scaling

\* C15: clearScaling from a state with is_scaled => has_scaling ends with
\* is_scaled false and the scale reset (no scaling, strategy off, zero counts
\* and cost factor, no factors), the costs and bounds being the unscaled
\* ones: those before the scale was applied if it was, the current ones
\* otherwise.
C15_ClearScalingUnscales ==
  ClearedScaling =>
    /\ ~failed
    /\ ~lp.is_scaled_
    /\ ~lp.scale_.has_scaling
    /\ lp.scale_.strategy = "kSimplexScaleStrategyOff"
    /\ lp.scale_.num_col = 0 /\ lp.scale_.num_row = 0
    /\ lp.scale_.cost = Rat(0, 1)
    /\ lp.scale_.col = <<>> /\ lp.scale_.row = <<>>
    /\ ScaledValues(lp) = IF pre.is_scaled_ THEN ScaledValues(orig)
                          ELSE ScaledValues(pre)

\* clearScaling of a scaled model whose scaled costs and bounds differed
\* from the unscaled ones
C15_Witness ==
  /\ ClearedScaling /\ pre.is_scaled_
  /\ pre.col_cost_ # lp.col_cost_
  /\ pre.col_upper_ # lp.col_upper_
  /\ pre.row_upper_ # lp.row_upper_
  /\ lp.col_cost_ = orig.col_cost_

(***************************************************************************)
(* exactResize.                                                            *)
(***************************************************************************)
\* std::vector::resize(n): the first n entries are kept, new entries are
\* value-initialised (fill)
Resize(v, n, fill) == [i \in 1..n |-> IF i <= Len(v) THEN v[i] ELSE fill]

\* the matrix's exactResize: its storage is trimmed to the dimensions the
\* matrix holds itself; its entries stay
MatrixExactResize(m) == m

\* exactResize resizing names and types whether or not they are empty
ExactResizeAlways(l) ==
  [l EXCEPT
     !.col_cost_ = Resize(@, l.num_col_, Rat(0, 1)),
     !.col_lower_ = Resize(@, l.num_col_, Rat(0, 1)),
     !.col_upper_ = Resize(@, l.num_col_, Rat(0, 1)),
     !.row_lower_ = Resize(@, l.num_row_, Rat(0, 1)),
     !.row_upper_ = Resize(@, l.num_row_, Rat(0, 1)),
     !.a_matrix_ = MatrixExactResize(@),
     !.col_names_ = Resize(@, l.num_col_, ""),
     !.row_names_ = Resize(@, l.num_row_, ""),
     !.integrality_ = Resize(@, l.num_col_, "kContinuous")]

\* HighsLp::exactResize
ExactResize(l) ==
  [l EXCEPT
     !.col_cost_ = Resize(@, l.num_col_, Rat(0, 1)),
     !.col_lower_ = Resize(@, l.num_col_, Rat(0, 1)),
     !.col_upper_ = Resize(@, l.num_col_, Rat(0, 1)),
     !.row_lower_ = Resize(@, l.num_row_, Rat(0, 1)),
     !.row_upper_ = Resize(@, l.num_row_, Rat(0, 1)),
     !.a_matrix_ = MatrixExactResize(@),
     !.col_names_ = IF Len(@) # 0 THEN Resize(@, l.num_col_, "") ELSE @,
     !.row_names_ = IF Len(@) # 0 THEN Resize(@, l.num_row_, "") ELSE @,
     !.integrality_ =
        IF Len(@) # 0 THEN Resize(@, l.num_col_, "kContinuous") ELSE @]

(***************************************************************************)
(* Specification SpecResize: a caller passes in a model with or without    *)
(* names and types, changes the column and row counts, and calls           *)
(* exactResize.                                                            *)
(***************************************************************************)
\* the models a caller passes in: those of PassedModels, each of column
\* names, row names and types either given or left out (empty)
ResizableModels ==
  { [m EXCEPT
       !.col_names_ = IF "col_names_" \in given THEN @ ELSE <<>>,
       !.row_names_ = IF "row_names_" \in given THEN @ ELSE <<>>,
       !.integrality_ = IF "integrality_" \in given THEN @ ELSE <<>>] :
      m \in PassedModels,
      given \in SUBSET {"col_names_", "row_names_", "integrality_"} }

InitResize == lp = NewLp /\ InitCommon

passResizable ==
  /\ ~failed /\ lp = NewLp
  /\ \E m \in ResizableModels : lp' = m
  /\ Log("passResizable", Null)
  /\ UNCHANGED <<lp2, trip, orig, result, failed, installs>>

\* the caller changes the counts (columns or rows added or deleted), at
\* most MaxInstall times; installs counts the changes here
setDimensions ==
  /\ ~failed /\ lp # NewLp /\ installs < MaxInstall
  /\ \E nc \in 0..MaxDim, nr \in 0..MaxDim :
       /\ <<nc, nr>> # <<lp.num_col_, lp.num_row_>>
       /\ lp' = [lp EXCEPT !.num_col_ = nc, !.num_row_ = nr]
       /\ Log("setDimensions", <<nc, nr>>)
  /\ installs' = installs + 1
  /\ UNCHANGED <<lp2, trip, orig, result, failed>>

exactResize ==
  /\ ~failed
  /\ lp' = ExactResize(lp)
  /\ Log("exactResize", Null)
  /\ UNCHANGED <<lp2, trip, orig, result, failed, installs>>

NextResize == passResizable \/ setDimensions \/ exactResize

SpecResize == InitResize /\ [][NextResize]_vars

\* the case of C16 for one optional sequence: resized to count when it was
\* non-empty, still empty when it was empty
ResizedIfTracked(before, after, count) ==
  IF before = <<>> THEN after = <<>> ELSE Len(after) = count

\* C16: exactResize sets the lengths of column cost, lower and upper to the
\* column count and of row lower and upper to the row count; column names,
\* row names and types are resized to the matching count only when they were
\* non-empty before, and stay empty when they were empty.
C16_ExactResize ==
  op = "exactResize" =>
    /\ Len(lp.col_cost_) = lp.num_col_
    /\ Len(lp.col_lower_) = lp.num_col_
    /\ Len(lp.col_upper_) = lp.num_col_
    /\ Len(lp.row_lower_) = lp.num_row_
    /\ Len(lp.row_upper_) = lp.num_row_
    /\ ResizedIfTracked(pre.col_names_, lp.col_names_, lp.num_col_)
    /\ ResizedIfTracked(pre.row_names_, lp.row_names_, lp.num_row_)
    /\ ResizedIfTracked(pre.integrality_, lp.integrality_, lp.num_col_)
    /\ lp.num_col_ = pre.num_col_ /\ lp.num_row_ = pre.num_row_

\* growth of the columns with no column names but with types, the costs and
\* types growing and the names staying empty
C16_Witness ==
  /\ op = "exactResize"
  /\ pre.col_names_ = <<>> /\ lp.col_names_ = <<>>
  /\ pre.integrality_ # <<>>
  /\ lp.num_col_ > Len(pre.col_cost_)
  /\ Len(lp.col_cost_) = lp.num_col_
  /\ Len(lp.integrality_) > Len(pre.integrality_)
  /\ pre.row_names_ # <<>> /\ Len(lp.row_names_) < Len(pre.row_names_)

(***************************************************************************)
(* Specification SpecRestore: unapplyMods on journals of any content: each *)
(* log holds up to MaxLog entries as the data model describes them (an     *)
(* index with its saved values), a column may be in several logs and       *)
(* twice in log 1, and the types of the columns are of any kind.           *)
(***************************************************************************)
VarTypes == <<"kContinuous", "kSemiContinuous", "kInteger", "kSemiInteger">>

\* the index vectors of at most MaxLog columns, in ascending order
AscendingIndices ==
  { index \in UNION {[1..n -> 0..(MaxCol - 1)] : n \in 0..MaxLog} :
      \A j, k \in DOMAIN index : j < k => index[j] < index[k] }

\* the index vectors of log 1: as above, or each column listed twice
NonSemiIndices == AscendingIndices \cup {index \o index : index \in AscendingIndices}

\* the types log 2 saves
SavedTypes == {"kSemiInteger", "kContinuous"}

\* the models with a journal: column iCol has the type the seed v gives it,
\* lower bound 1 and upper bound 3; log 2 saves lower 5, upper 4 and a type,
\* log 3 saves lower 2, log 4 saves upper 6
JournalledModels ==
  { [NewLp EXCEPT
       !.num_col_ = MaxCol,
       !.col_cost_ = [iCol \in 1..MaxCol |-> Rat(iCol, 1)],
       !.col_lower_ = [iCol \in 1..MaxCol |-> Rat(1, 1)],
       !.col_upper_ = [iCol \in 1..MaxCol |-> Rat(3, 1)],
       !.integrality_ = [iCol \in 1..MaxCol |-> VarTypes[((v + iCol) % 4) + 1]],
       !.mods_ =
          [save_non_semi_variable_index |-> i1,
           save_inconsistent_semi_variable_index |-> i2,
           save_inconsistent_semi_variable_lower_bound_value |->
              [k \in DOMAIN i2 |-> Rat(5, 1)],
           save_inconsistent_semi_variable_upper_bound_value |->
              [k \in DOMAIN i2 |-> Rat(4, 1)],
           save_inconsistent_semi_variable_type |-> t2,
           save_relaxed_semi_variable_lower_bound_index |-> i3,
           save_relaxed_semi_variable_lower_bound_value |->
              [k \in DOMAIN i3 |-> Rat(2, 1)],
           save_tightened_semi_variable_upper_bound_index |-> i4,
           save_tightened_semi_variable_upper_bound_value |->
              [k \in DOMAIN i4 |-> Rat(6, 1)]]] :
      v \in 0..3, i1 \in NonSemiIndices,
      i2 \in AscendingIndices, t2 \in UNION {[1..n -> SavedTypes] : n \in 0..MaxLog},
      i3 \in AscendingIndices, i4 \in AscendingIndices }

InitRestore ==
  /\ lp \in {l \in JournalledModels :
               Len(l.mods_.save_inconsistent_semi_variable_type)
                 = Len(l.mods_.save_inconsistent_semi_variable_index)}
  /\ InitCommon

NextRestore == unapplyMods \/ isClear

SpecRestore == InitRestore /\ [][NextRestore]_vars

(***************************************************************************)
(* Claims on the restore order and on the contract of unapplyMods.         *)
(***************************************************************************)
\* the value saved with the last entry of the log for the column
Saved(index, value, col) ==
  value[CHOOSE k \in DOMAIN index :
          index[k] = col /\ \A j \in DOMAIN index : j > k => index[j] # col]

\* the last operation was an unapplyMods that ran to completion
Restored == op = "unapplyMods" /\ ~failed

\* C17: the restore order is log 1, log 2, log 3, log 4 and later steps
\* win: a column in logs 1 and 2 ends with the type log 2 saved, a column in
\* logs 2 and 3 with the lower bound log 3 saved, a column in logs 2 and 4
\* with the upper bound log 4 saved.
C17_LaterStepsWin ==
  Restored =>
    \A col \in 0..(pre.num_col_ - 1) :
      LET mods == pre.mods_
          in1 == InLog(mods.save_non_semi_variable_index, col)
          in2 == InLog(mods.save_inconsistent_semi_variable_index, col)
          in3 == InLog(mods.save_relaxed_semi_variable_lower_bound_index, col)
          in4 == InLog(mods.save_tightened_semi_variable_upper_bound_index, col)
      IN  /\ (in1 /\ in2) =>
               lp.integrality_[col + 1] =
                 Saved(mods.save_inconsistent_semi_variable_index,
                       mods.save_inconsistent_semi_variable_type, col)
          /\ (in2 /\ in3) =>
               lp.col_lower_[col + 1] =
                 Saved(mods.save_relaxed_semi_variable_lower_bound_index,
                       mods.save_relaxed_semi_variable_lower_bound_value, col)
          /\ (in2 /\ in4) =>
               lp.col_upper_[col + 1] =
                 Saved(mods.save_tightened_semi_variable_upper_bound_index,
                       mods.save_tightened_semi_variable_upper_bound_value, col)

\* a continuous column in all four logs: step 1 infers semi-continuous,
\* log 2 saved semi-integer and other bounds than logs 3 and 4
C17_Witness ==
  /\ Restored
  /\ \E col \in 0..(pre.num_col_ - 1) :
       /\ InLog(pre.mods_.save_non_semi_variable_index, col)
       /\ InLog(pre.mods_.save_inconsistent_semi_variable_index, col)
       /\ InLog(pre.mods_.save_relaxed_semi_variable_lower_bound_index, col)
       /\ InLog(pre.mods_.save_tightened_semi_variable_upper_bound_index, col)
       /\ pre.integrality_[col + 1] = "kContinuous"
       /\ lp.integrality_[col + 1] = "kSemiInteger"
       /\ lp.col_lower_[col + 1] = Rat(2, 1)
       /\ lp.col_upper_[col + 1] = Rat(6, 1)

\* a column of log 1 whose type is not continuous or integer at the moment
\* it is processed: it was not at the start, or the column is listed again
NonSemiViolation(l) ==
  LET index == l.mods_.save_non_semi_variable_index IN
  \E k \in DOMAIN index :
    \/ ~IsNonSemi(l.integrality_[index[k] + 1])
    \/ \E j \in DOMAIN index : j < k /\ index[j] = index[k]

\* the type of the column after steps 1 and 2
TypeAfterSteps12(l, col) ==
  IF InLog(l.mods_.save_inconsistent_semi_variable_index, col)
  THEN Saved(l.mods_.save_inconsistent_semi_variable_index,
             l.mods_.save_inconsistent_semi_variable_type, col)
  ELSE IF InLog(l.mods_.save_non_semi_variable_index, col)
       THEN IF l.integrality_[col + 1] = "kContinuous"
            THEN "kSemiContinuous" ELSE "kSemiInteger"
       ELSE l.integrality_[col + 1]

\* a column of log 3 or log 4 whose type is not semi after steps 1 and 2
SemiViolation(l) ==
  \E col \in 0..(l.num_col_ - 1) :
    /\ \/ InLog(l.mods_.save_relaxed_semi_variable_lower_bound_index, col)
       \/ InLog(l.mods_.save_tightened_semi_variable_upper_bound_index, col)
    /\ ~IsSemi(TypeAfterSteps12(l, col))

C19_FormAssertionsHold ==
  op = "form" => ~failed

====
